---- MODULE Spec2Model ----
(***************************************************************************)
(* Validation and entry derivation of VASP task documents (emmet-core).    *)
(*                                                                         *)
(* ValidationDoc.from_task_doc (emmet/core/vasp/validation.py) and the     *)
(* TaskDocument properties run_type, entry and structure_entry             *)
(* (emmet/core/vasp/task.py) are pure functions of a task record.  They    *)
(* are operators here; the state machine draws a task and the call's       *)
(* arguments in Init and applies the functions one after the other.        *)
(*                                                                         *)
(* Python dicts are functions whose DOMAIN is the set of keys present; an  *)
(* absent key is absent from the DOMAIN.  Floating-point quotients are     *)
(* kept as exact fractions [num, den]; den = 0 is numpy's inf / nan, which *)
(* compares False with everything.  np.gradient's halves are kept as       *)
(* fractions over 2.  An optional argument (None or a value) is a set of   *)
(* at most one element.                                                    *)
(***************************************************************************)
EXTENDS Integers, Sequences, FiniteSets, TLC

VARIABLES task_doc, input_sets, kpts_tolerance, max_allowed_scf_gradient,
          deprecated_tags, doc, entry_doc, structure_entry_doc,
          grouped_entries, electrode_doc, voltage_pair_docs

vars == <<task_doc, input_sets, kpts_tolerance, max_allowed_scf_gradient,
          deprecated_tags, doc, entry_doc, structure_entry_doc,
          grouped_entries, electrode_doc, voltage_pair_docs>>

args == <<task_doc, input_sets, kpts_tolerance, max_allowed_scf_gradient,
          deprecated_tags, grouped_entries>>

----------------------------------------------------------------------------
(* Bounds of the model *)

MaxCalcs == 2
MaxElectronicSteps == 3
MaxEnergy == 2
MaxSkip == 2
MaxGradient == 1
MaxEntries == 3

----------------------------------------------------------------------------
(* Python and numpy helpers *)

EmptyDict == <<>>

Get(d, k, default) == IF k \in DOMAIN d THEN d[k] ELSE default

Range(s) == {s[i] : i \in DOMAIN s}

RECURSIVE Prod(_)
Prod(s) == IF s = <<>> THEN 1 ELSE Head(s) * Prod(Tail(s))

SetMax(S) == CHOOSE x \in S : \A y \in S : y <= x

SetMin(S) == CHOOSE x \in S : \A y \in S : x <= y

Ratio(n, d) == [num |-> n, den |-> d]

\* r < t on floats: False when r is inf or nan (den = 0)
RatLt(r, t) == r.den > 0 /\ t.den > 0 /\ r.num * t.den < t.num * r.den

\* zip(*fields): tuples up to the shortest field
Zip(fields) ==
    LET n == SetMin({Len(fields[j]) : j \in DOMAIN fields})
    IN  [i \in 1..n |-> [j \in DOMAIN fields |-> fields[j][i]]]

DictOfZipByPosition(fields) ==
    LET z == Zip(fields)
    IN  [i \in DOMAIN z |-> Tail(z[i])]

\* {d[0]: d[1:] for d in zip(*fields)}; a repeated key keeps its last value
DictOfZip(fields) ==
    LET z == Zip(fields)
        last(el) == SetMax({i \in DOMAIN z : z[i][1] = el})
    IN  [el \in {z[i][1] : i \in DOMAIN z} |-> Tail(z[last(el)])]

\* np.gradient(energies), times two: one-sided differences at the two ends,
\* central differences inside; defined for two or more values
Gradient2(e) ==
    LET n == Len(e)
    IN  [i \in 1..n |->
            IF i = 1 THEN 2 * (e[2] - e[1])
            ELSE IF i = n THEN 2 * (e[n] - e[n - 1])
            ELSE e[i + 1] - e[i - 1]]

SliceFromStart(g, skip) == g

\* g[skip:] with skip None (absent) or a count
SliceFrom(g, skip) ==
    IF skip = {} THEN g
    ELSE LET k == CHOOSE x \in skip : TRUE
         IN  IF k >= Len(g) THEN <<>> ELSE SubSeq(g, k + 1, Len(g))

----------------------------------------------------------------------------
(* DeprecationMessage *)

MANUAL == "MANUAL"
KPTS == "KPTS"
ENCUT == "ENCUT"
FORCES == "FORCES"
CONVERGENCE == "CONVERGENCE"
MAX_SCF == "MAX_SCF"
LDAU == "LDAU"

DeprecationMessage == {MANUAL, KPTS, ENCUT, FORCES, CONVERGENCE, MAX_SCF, LDAU}

\* SETTINGS.VASP_CHECKED_LDAU_FIELDS
LDAU_fields == <<"LDAUU", "LDAUJ", "LDAUL">>

----------------------------------------------------------------------------
(* TaskDocument properties *)

\* emmet.core.vasp.calc_types.run_type: a function of the merged parameters
RunTypeOf(params) == <<"RunType", params>>

run_type_of_first_calc(task) ==
    LET input == Get(task.calcs_reversed[Len(task.calcs_reversed)], "input", EmptyDict)
        params == Get(input, "parameters", EmptyDict)
        incar == Get(input, "incar", EmptyDict)
        ldau_fields == [k \in {"LDAUL", "LDAUJ", "LDAUU"} |-> Get(incar, k, <<>>)]
    IN  RunTypeOf(ldau_fields @@ params)

run_type(task) ==
    LET input == Get(task.calcs_reversed[1], "input", EmptyDict)
        params == Get(input, "parameters", EmptyDict)
        incar == Get(input, "incar", EmptyDict)
        ldau_fields == [k \in {"LDAUL", "LDAUJ", "LDAUU"} |-> Get(incar, k, <<>>)]
    IN  RunTypeOf(ldau_fields @@ params)

\* task_type(self.orig_inputs): the classifier's answer is kept with the task
task_type(task) == task.task_type

----------------------------------------------------------------------------
(* ValidationDoc.from_task_doc *)

valid_num_kpts(valid_input_set) ==
    IF valid_input_set.kpoints.num_kpts # 0
    THEN valid_input_set.kpoints.num_kpts
    ELSE Prod(valid_input_set.kpoints.kpts[1])

num_kpts(inputs) ==
    LET kpoints == Get(inputs, "kpoints", EmptyDict)
        nkpoints == Get(kpoints, "nkpoints", 0)
    IN  IF nkpoints # 0 THEN nkpoints
        ELSE Prod(Get(kpoints, "kpoints", <<1, 1, 1>>))

kpts_ratio(inputs, valid_input_set) ==
    Ratio(num_kpts(inputs), valid_num_kpts(valid_input_set))

KptsFlagAtTolerance(ratio, tolerance) ==
    RatLt(ratio, tolerance) \/ ratio.num * tolerance.den = tolerance.num * ratio.den

KptsFlag(ratio, tolerance) == RatLt(ratio, tolerance)

\* float(None) is a TypeError, x / 0 a ZeroDivisionError
EncutRaises(inputs, valid_input_set) ==
    \/ "ENCUT" \notin DOMAIN Get(inputs, "incar", EmptyDict)
    \/ valid_input_set.incar.ENCUT = 0

encut_ratio(inputs, valid_input_set) ==
    Ratio(inputs.incar.ENCUT, valid_input_set.incar.ENCUT)

EncutFlagAtReference(ratio) == RatLt(ratio, Ratio(1, 1)) \/ ratio.num = ratio.den

EncutFlag(ratio) == RatLt(ratio, Ratio(1, 1))

input_ldau_params(structure, inputs) ==
    DictOfZip(<<structure.symbol_set>> \o
              [k \in DOMAIN LDAU_fields |->
                  Get(Get(inputs, "incar", EmptyDict), LDAU_fields[k], <<>>)])

input_set_ldau_params(valid_input_set) ==
    DictOfZip(<<valid_input_set.poscar.structure.symbol_set>> \o
              [k \in DOMAIN LDAU_fields |-> valid_input_set.incar[LDAU_fields[k]]])

LdauMismatch(set_params, in_params) ==
    \E el \in DOMAIN in_params : set_params[el] # in_params[el]

LdauFlag(structure, inputs, valid_input_set) ==
    /\ Get(valid_input_set.incar, "LDAU", FALSE)
    /\ LdauMismatch(input_set_ldau_params(valid_input_set),
                    input_ldau_params(structure, inputs))

\* the electronic steps read by the SCF check
ScfSteps(task) ==
    LET ionic_steps == task.calcs_reversed[1].output.ionic_steps
    IN  ionic_steps[Len(ionic_steps)].electronic_steps

ScfSkip(inputs) ==
    LET incar == Get(inputs, "incar", EmptyDict)
    IN  IF "NLEMDL" \in DOMAIN incar THEN {incar.NLEMDL} ELSE {}

ScfGradients(task, inputs) ==
    LET steps == ScfSteps(task)
        energies == [i \in DOMAIN steps |-> steps[i].e_fr_energy]
    IN  SliceFrom(Gradient2(energies), ScfSkip(inputs))

\* IndexError / KeyError on the nested lookups, ValueError from np.gradient on
\* fewer than two energies and from np.max on an empty slice
ScfRaises(task, inputs) ==
    LET ionic_steps == task.calcs_reversed[1].output.ionic_steps
    IN  \/ ionic_steps = <<>>
        \/ "electronic_steps" \notin DOMAIN ionic_steps[Len(ionic_steps)]
        \/ Len(ScfSteps(task)) < 2
        \/ ScfGradients(task, inputs) = <<>>

max_gradient(task, inputs) ==
    Ratio(SetMax(Range(ScfGradients(task, inputs))), 2)

ScfFlag(gradient, max_allowed) == RatLt(Ratio(max_allowed, 1), gradient)

dep_tags_(dep_tags) ==
    IF dep_tags = {} THEN <<>> ELSE CHOOSE l \in dep_tags : TRUE

ManualFlag(task, dep_tags) ==
    (Range(task.tags) \cup Range(dep_tags_(dep_tags))) # {}

Raised == [outcome |-> "raised"]

ValidOfButManual(reasons) == \A i \in DOMAIN reasons : reasons[i] = MANUAL

ValidOf(reasons) == Len(reasons) = 0

\* reasons.append(code) under its if
AppendIf(flag, code) == IF flag THEN <<code>> ELSE <<>>

CollectFirstReason(hasSet, kpts, encut, ldau, scf, manual) ==
    (IF ~hasSet THEN <<>>
     ELSE IF kpts THEN <<KPTS>>
     ELSE IF encut THEN <<ENCUT>>
     ELSE IF ldau THEN <<LDAU>>
     ELSE IF scf THEN <<MAX_SCF>>
     ELSE <<>>)
    \o AppendIf(manual, MANUAL)

\* the reasons list: one append per check that flags, in the order of the
\* checks, the numeric ones only with an input set
CollectReasons(hasSet, kpts, encut, ldau, scf, manual) ==
    (IF hasSet
     THEN AppendIf(kpts, KPTS) \o AppendIf(encut, ENCUT) \o AppendIf(ldau, LDAU)
          \o AppendIf(scf, MAX_SCF)
     ELSE <<>>)
    \o AppendIf(manual, MANUAL)

\* the input set of the task's type, if input_sets has one
ValidInputSetAnyType(task, sets) ==
    IF task_type(task) \in DOMAIN sets THEN {sets[task_type(task)]}
    ELSE IF DOMAIN sets # {} THEN {sets[CHOOSE k \in DOMAIN sets : TRUE]}
    ELSE {}

ValidInputSet(task, sets) ==
    IF task_type(task) \in DOMAIN sets THEN {sets[task_type(task)]} ELSE {}

from_task_doc(task, tolerance, sets, max_allowed, dep_tags) ==
    LET structure == task.output.structure
        inputs == task.orig_inputs
        found == ValidInputSet(task, sets)
        hasSet == found # {}
        valid_input_set == CHOOSE v \in found : TRUE
        kr == kpts_ratio(inputs, valid_input_set)
        er == encut_ratio(inputs, valid_input_set)
        mg == max_gradient(task, inputs)
        reasons ==
            CollectReasons(hasSet,
                           KptsFlag(kr, tolerance),
                           EncutFlag(er),
                           LdauFlag(structure, inputs, valid_input_set),
                           ScfFlag(mg, max_allowed),
                           ManualFlag(task, dep_tags))
        data ==
            IF hasSet
            THEN [kpts_ratio |-> kr, encut_ratio |-> er, max_gradient |-> mg]
            ELSE EmptyDict
    IN  IF hasSet /\ EncutRaises(inputs, valid_input_set) THEN Raised
        ELSE IF hasSet /\ ScfRaises(task, inputs) THEN Raised
        ELSE [outcome |-> "returned",
              task_id |-> task.task_id,
              task_type |-> task_type(task),
              run_type |-> run_type(task),
              valid |-> ValidOf(reasons),
              reasons |-> reasons,
              data |-> data]

----------------------------------------------------------------------------
(* TaskDocument.entry and TaskDocument.structure_entry *)

\* pymatgen: Structure.composition and oxide_type(structure)
Composition(structure) == Range(structure.symbol_set)

oxide_type(structure) ==
    IF "O" \in Range(structure.symbol_set) THEN "oxide" ELSE "None"

entry(task) ==
    [correction |-> 0,
     entry_id |-> task.task_id,
     composition |-> Composition(task.output.structure),
     energy |-> task.output.energy,
     parameters |->
        [potcar_spec |-> task.input.potcar_spec,
         is_hubbard |-> task.input.is_hubbard,
         hubbards |-> task.input.hubbards,
         run_type |-> run_type(task)],
     data |->
        [oxide_type |-> oxide_type(task.output.structure),
         aspherical |-> Get(task.input.parameters, "LASPH", TRUE),
         last_updated |-> task.last_updated]]

structure_entry(task) ==
    [structure |-> task.output.structure] @@ entry(task)

----------------------------------------------------------------------------
(* Electrode derivation: InsertionElectrodeDoc and InsertionVoltagePairDoc *)

\* the working-ion reference entry: its energy per ion
WorkingIonEntry == [energy |-> -2]

\* the stable entries ordered by working-ion content
OrderByIon(entries) ==
    CHOOSE q \in [1..Cardinality(entries) -> entries] :
        \A i, j \in DOMAIN q : i < j => q[i].ion < q[j].ion

\* energy released, and charge transferred, along an ordered entry sequence
RECURSIVE EnergyAlong(_, _)
EnergyAlong(q, working_ion_entry) ==
    IF Len(q) < 2 THEN 0
    ELSE (q[1].energy - q[2].energy
          + (q[2].ion - q[1].ion) * working_ion_entry.energy)
         + EnergyAlong(Tail(q), working_ion_entry)

RECURSIVE ChargeAlong(_)
ChargeAlong(q) ==
    IF Len(q) < 2 THEN 0 ELSE (q[2].ion - q[1].ion) + ChargeAlong(Tail(q))

\* electrode.get_average_voltage(): energy difference over charge transferred
get_average_voltage(q, working_ion_entry) ==
    Ratio(EnergyAlong(q, working_ion_entry), ChargeAlong(q))

\* electrode.get_sub_electrodes(adjacent_only=True)
get_sub_electrodes(q) == [i \in 1..(Len(q) - 1) |-> SubSeq(q, i, i + 1)]

\* InsertionVoltagePairDoc.from_sub_electrode
from_sub_electrode(sub_electrode, working_ion_entry) ==
    [frac_charge |-> sub_electrode[1].ion,
     frac_discharge |-> sub_electrode[Len(sub_electrode)].ion,
     average_voltage |-> get_average_voltage(sub_electrode, working_ion_entry)]

from_entries_first_pair(entries, working_ion_entry, task_id) ==
    [task_id |-> task_id,
     average_voltage |->
        get_average_voltage(SubSeq(OrderByIon(entries), 1, 2), working_ion_entry)]

\* InsertionElectrodeDoc.from_entries
from_entries(entries, working_ion_entry, task_id) ==
    [task_id |-> task_id,
     average_voltage |-> get_average_voltage(OrderByIon(entries), working_ion_entry)]

----------------------------------------------------------------------------
(* The records the functions are applied to *)

Opt(S) == {{}} \cup {{x} : x \in S}

OptKey(k, opt) == IF opt = {} THEN EmptyDict ELSE (k :> (CHOOSE x \in opt : TRUE))

Perms(S) ==
    {p \in [1..Cardinality(S) -> S] : \A i, j \in DOMAIN p : p[i] = p[j] => i = j}

Prefix(s, n) == SubSeq(s, 1, n)

Elements == {"Fe", "O"}

TaskTypes == {"Static", "Structure Optimization"}

BaseStructure == [symbol_set |-> <<"Fe", "O">>]

ElectronicSteps(energies) == [i \in DOMAIN energies |-> [e_fr_energy |-> energies[i]]]

IonicStep(energies) == [electronic_steps |-> ElectronicSteps(energies)]

\* one raw calculation document of calcs_reversed; its incar is optional
CalcDoc(parameters, incar, energy, structure, ionic_steps) ==
    [input |-> ([parameters |-> parameters,
                 is_hubbard |-> Get(parameters, "LDAU", FALSE),
                 hubbards |-> Get(Get(OptKey("incar", incar), "incar", EmptyDict),
                                  "LDAUU", <<>>),
                 potcar_spec |-> structure.symbol_set] @@ OptKey("incar", incar)),
     output |-> [energy |-> energy, structure |-> structure,
                 ionic_steps |-> ionic_steps]]

BaseCalc == CalcDoc([LDAU |-> FALSE], {}, 0, BaseStructure, <<IonicStep(<<0, 0>>)>>)

\* a step whose energies rise by MaxEnergy + 1 at once: read by mistake, it flags
DecoyIonicStep == IonicStep(<<0, MaxEnergy + 1, 0>>)

DecoyCalc ==
    CalcDoc([LDAU |-> TRUE], {}, 1, BaseStructure, <<DecoyIonicStep>>)

\* A TaskDocument.  Its input and output summaries hold the values of the last
\* calculation of the series, calcs_reversed[0].
TaskDocument(type, tags, orig_inputs, calcs) ==
    [task_id |-> "mp-1",
     task_type |-> type,
     tags |-> tags,
     last_updated |-> "2021-01-01",
     orig_inputs |-> orig_inputs,
     input |-> [parameters |-> calcs[1].input.parameters,
                is_hubbard |-> calcs[1].input.is_hubbard,
                hubbards |-> calcs[1].input.hubbards,
                potcar_spec |-> calcs[1].input.potcar_spec],
     output |-> [structure |-> calcs[1].output.structure,
                 energy |-> calcs[1].output.energy],
     calcs_reversed |-> calcs]

\* per-element (U, J, L) in the order of the symbols, as the INCAR lists them
LdauList(order, table, f) == [i \in DOMAIN order |-> table[order[i]][f]]

\* the input set built for the structure: input_sets[task_type](structure)
InputSet(kpoints, encut, ldau, order, table) ==
    [kpoints |-> kpoints,
     incar |-> [ENCUT |-> encut, LDAU |-> ldau,
                LDAUU |-> LdauList(order, table, 1),
                LDAUJ |-> LdauList(order, table, 2),
                LDAUL |-> LdauList(order, table, 3)],
     poscar |-> [structure |-> [symbol_set |-> order]]]

BaseTable == [el \in Elements |-> IF el = "Fe" THEN <<4, 0, 2>> ELSE <<0, 0, 0>>]

BaseRefKpoints == [num_kpts |-> 0, kpts |-> << <<4, 5, 1>> >>]

BaseKpoints == [nkpoints |-> 0, kpoints |-> <<4, 5, 1>>]

BaseIncar == [ENCUT |-> 520]

BaseInputSet == InputSet(BaseRefKpoints, BaseIncar.ENCUT, FALSE, <<"Fe", "O">>, BaseTable)

BaseInputs == [kpoints |-> BaseKpoints, incar |-> BaseIncar]

Tolerances == {Ratio(9, 10), Ratio(1, 2)}

BaseTolerance == Ratio(9, 10)

Scenario(task, sets, tolerance, max_allowed, dep_tags) ==
    [task |-> task, input_sets |-> sets, kpts_tolerance |-> tolerance,
     max_allowed_scf_gradient |-> max_allowed, deprecated_tags |-> dep_tags]

\* k-point specifications against reference k-points
ObsKpoints ==
    Opt({[nkpoints |-> n] : n \in {0, 10, 18, 19, 20}}
        \cup {[nkpoints |-> 0, kpoints |-> g] : g \in {<<4, 5, 1>>, <<3, 3, 2>>, <<0, 1, 1>>}}
        \cup {[kpoints |-> <<2, 5, 1>>]})

RefKpoints ==
    {[num_kpts |-> n, kpts |-> <<g>>] :
        n \in {0, 20}, g \in {<<4, 5, 1>>, <<1, 1, 1>>, <<0, 0, 0>>}}

KptsScenarios ==
    {Scenario(TaskDocument(type, <<>>,
                           OptKey("kpoints", kp) @@ [incar |-> BaseIncar],
                           <<BaseCalc>>),
              "Static" :> InputSet(rk, BaseIncar.ENCUT, FALSE, <<"Fe", "O">>, BaseTable),
              tol, MaxGradient, {}) :
        type \in TaskTypes, kp \in ObsKpoints, rk \in RefKpoints, tol \in Tolerances}

\* energy cutoffs against reference cutoffs
ObsIncars == Opt({EmptyDict} \cup {[ENCUT |-> e] : e \in {400, 520, 600}})

EncutScenarios ==
    {Scenario(TaskDocument(type, <<>>,
                           OptKey("kpoints", kp) @@ OptKey("incar", ic),
                           <<BaseCalc>>),
              "Static" :> InputSet(BaseRefKpoints, re, FALSE, <<"Fe", "O">>, BaseTable),
              BaseTolerance, MaxGradient, {}) :
        type \in TaskTypes, kp \in Opt({BaseKpoints}), ic \in ObsIncars,
        re \in {0, 520}}

\* tags against deprecated tags
TagScenarios ==
    {Scenario(TaskDocument(type, tags, BaseInputs, <<BaseCalc>>),
              sets, BaseTolerance, MaxGradient, dep) :
        type \in TaskTypes,
        tags \in {<<>>, <<"deprecated">>, <<"prod">>, <<"prod", "deprecated">>},
        sets \in {EmptyDict, "Static" :> BaseInputSet},
        dep \in Opt({<<>>, <<"deprecated">>, <<"old">>})}

\* observed Hubbard parameters against the reference's
ObsTables == [Elements -> {<<u, 0, l>> : u \in {0, 4}, l \in {0, 2}}]

RefTables == {BaseTable, [el \in Elements |-> <<4, 0, 2>>]}

\* the INCAR lists of a calculation, each possibly shorter than the structure
LdauIncar(order, table, nu, nj, nl) ==
    [ENCUT |-> BaseIncar.ENCUT,
     LDAUJ |-> Prefix(LdauList(order, table, 2), nj),
     LDAUL |-> Prefix(LdauList(order, table, 3), nl)]
    @@ OptKey("LDAUU", IF nu = 0 THEN {} ELSE {Prefix(LdauList(order, table, 1), nu)})

LdauScenarios ==
    {Scenario(TaskDocument("Static", <<>>,
                           [kpoints |-> BaseKpoints,
                            incar |-> LdauIncar(o, t, n[1], n[2], n[3])],
                           <<CalcDoc([LDAU |-> TRUE], {}, 0, [symbol_set |-> o],
                                     <<IonicStep(<<0, 0>>)>>)>>),
              "Static" :> InputSet(BaseRefKpoints, BaseIncar.ENCUT, ldau, ro, rt),
              BaseTolerance, MaxGradient, {}) :
        o \in Perms(Elements), t \in ObsTables,
        n \in {<<2, 2, 2>>, <<0, 2, 2>>, <<1, 2, 2>>, <<2, 1, 2>>, <<2, 2, 0>>,
               <<1, 1, 1>>, <<0, 0, 0>>},
        ldau \in BOOLEAN, ro \in Perms(Elements), rt \in RefTables}

\* electronic-step energies against the allowed gradient
EnergySeqs == UNION {[1..n -> 0..MaxEnergy] : n \in 0..MaxElectronicSteps}

\* the steps read alone, or after an earlier ionic step and an earlier calculation
ScfCalcs(energies) ==
    {<<CalcDoc([LDAU |-> FALSE], {}, 0, BaseStructure, <<IonicStep(energies)>>)>>,
     <<CalcDoc([LDAU |-> FALSE], {}, 0, BaseStructure,
               <<DecoyIonicStep, IonicStep(energies)>>),
       DecoyCalc>>}

\* calculations without ionic steps, or whose last ionic step has no electronic steps
BrokenCalcs ==
    {<<CalcDoc([LDAU |-> FALSE], {}, 0, BaseStructure, ionic)>> :
        ionic \in {<<>>, <<DecoyIonicStep, EmptyDict>>}}

ScfScenarios ==
    {Scenario(TaskDocument(type, <<>>,
                           [kpoints |-> BaseKpoints,
                            incar |-> BaseIncar @@ OptKey("NLEMDL", skip)],
                           calcs),
              "Static" :> BaseInputSet, BaseTolerance, thr, {}) :
        type \in {"Static"}, skip \in Opt(0..MaxSkip), thr \in 0..MaxGradient,
        calcs \in UNION {ScfCalcs(e) : e \in EnergySeqs}}
    \cup
    {Scenario(TaskDocument(type, <<>>, BaseInputs, calcs),
              "Static" :> BaseInputSet, BaseTolerance, MaxGradient, {}) :
        type \in TaskTypes, calcs \in BrokenCalcs}

\* calculation series of one or more steps
CalcChoices ==
    {CalcDoc(params, incar, out[1], out[2], <<IonicStep(<<0, 0>>)>>) :
        params \in {[LDAU |-> FALSE], [LDAU |-> TRUE, LASPH |-> FALSE]},
        incar \in Opt({[LDAUU |-> <<4, 0>>]}),
        out \in {<<0, BaseStructure>>, <<1, [symbol_set |-> <<"Li", "Fe">>]>>}}

CalcSeries == UNION {[1..n -> CalcChoices] : n \in 1..MaxCalcs}

EntryScenarios ==
    {Scenario(TaskDocument("Static", <<>>, BaseInputs, calcs),
              "Static" :> BaseInputSet, BaseTolerance, MaxGradient, {}) :
        calcs \in CalcSeries}

\* several checks at once
MixedScenarios ==
    {Scenario(TaskDocument(type, tags,
                           OptKey("kpoints", kp)
                           @@ [incar |-> [ENCUT |-> e]
                                         @@ LdauIncar(<<"Fe", "O">>, BaseTable, nu, 2, 2)],
                           <<CalcDoc([LDAU |-> TRUE], {}, 0, BaseStructure,
                                     <<IonicStep(es)>>)>>),
              "Static" :> InputSet(BaseRefKpoints, BaseIncar.ENCUT, TRUE, <<"O", "Fe">>, rt),
              BaseTolerance, 0, {}) :
        type \in TaskTypes, tags \in {<<>>, <<"prod">>},
        kp \in Opt({[nkpoints |-> 10]}), e \in {400, 520}, nu \in {0, 2},
        es \in {<<0, 0>>, <<0, 1>>}, rt \in RefTables}

\* groups of stable entries of distinct working-ion content
StableEntries == {[ion |-> x, energy |-> e] : x \in 0..MaxEntries, e \in {-1, -4}}

EntryGroups ==
    {g \in SUBSET StableEntries :
        /\ Cardinality(g) \in 2..MaxEntries
        /\ \A a, b \in g : a.ion = b.ion => a = b}

BaseScenario ==
    Scenario(TaskDocument("Static", <<>>, BaseInputs, <<BaseCalc>>),
             "Static" :> BaseInputSet, BaseTolerance, MaxGradient, {})

Scenarios ==
    KptsScenarios \cup EncutScenarios \cup TagScenarios \cup LdauScenarios
    \cup ScfScenarios \cup EntryScenarios \cup MixedScenarios

----------------------------------------------------------------------------
(* The state machine: a task and the arguments of the call, then the calls *)

Init ==
    /\ \E s \in Scenarios, g \in {{}} \cup EntryGroups :
        /\ g = {} \/ s = BaseScenario
        /\ task_doc = s.task
        /\ input_sets = s.input_sets
        /\ kpts_tolerance = s.kpts_tolerance
        /\ max_allowed_scf_gradient = s.max_allowed_scf_gradient
        /\ deprecated_tags = s.deprecated_tags
        /\ grouped_entries = g
    /\ doc = {}
    /\ entry_doc = {}
    /\ structure_entry_doc = {}
    /\ electrode_doc = {}
    /\ voltage_pair_docs = {}

\* ValidationDoc.from_task_doc(task_doc, ...); an exception leaves no document
Validate ==
    /\ doc = {}
    /\ doc' = {from_task_doc(task_doc, kpts_tolerance, input_sets,
                             max_allowed_scf_gradient, deprecated_tags)}
    /\ UNCHANGED <<args, entry_doc, structure_entry_doc, electrode_doc,
                   voltage_pair_docs>>

\* task_doc.entry
DeriveEntry ==
    /\ entry_doc = {}
    /\ entry_doc' = {entry(task_doc)}
    /\ UNCHANGED <<args, doc, structure_entry_doc, electrode_doc, voltage_pair_docs>>

\* task_doc.structure_entry
DeriveStructureEntry ==
    /\ structure_entry_doc = {}
    /\ structure_entry_doc' = {structure_entry(task_doc)}
    /\ UNCHANGED <<args, doc, entry_doc, electrode_doc, voltage_pair_docs>>

\* InsertionElectrodeDoc.from_entries(grouped_entries, working_ion_entry, task_id)
BuildElectrodeDoc ==
    /\ grouped_entries # {}
    /\ electrode_doc = {}
    /\ electrode_doc' = {from_entries(grouped_entries, WorkingIonEntry, "mp-1234")}
    /\ UNCHANGED <<args, doc, entry_doc, structure_entry_doc, voltage_pair_docs>>

\* InsertionVoltagePairDoc.from_sub_electrode for every adjacent sub-electrode
BuildVoltagePairDocs ==
    /\ grouped_entries # {}
    /\ voltage_pair_docs = {}
    /\ voltage_pair_docs' =
           LET subs == get_sub_electrodes(OrderByIon(grouped_entries))
           IN  {[i \in DOMAIN subs |-> from_sub_electrode(subs[i], WorkingIonEntry)]}
    /\ UNCHANGED <<args, doc, entry_doc, structure_entry_doc, electrode_doc>>

Next ==
    \/ Validate \/ DeriveEntry \/ DeriveStructureEntry
    \/ BuildElectrodeDoc \/ BuildVoltagePairDocs

Spec == Init /\ [][Next]_vars

----------------------------------------------------------------------------
(* Properties *)

Returned == {d \in doc : d.outcome = "returned"}

HasReference == task_doc.task_type \in DOMAIN input_sets

Reference == input_sets[task_doc.task_type]

Reasons(d) == Range(d.reasons)

\* C1: every document from_task_doc returns has valid true exactly when its
\* reasons list is empty.
C1_ValidIffNoReasons ==
    \A d \in Returned : d.valid <=> d.reasons = <<>>

C1_Witness ==
    \E d \in Returned : ~d.valid /\ d.reasons = <<MANUAL>>

\* C2: for a task whose type has no entry in input_sets the call returns a
\* document whose reasons are empty or exactly [MANUAL] and whose data is empty,
\* whatever the task's k-points, incar and electronic steps hold.
C2_NoReferenceOnlyManual ==
    \A d \in doc :
        ~HasReference =>
            /\ d.outcome = "returned"
            /\ d.reasons \in {<<>>, <<MANUAL>>}
            /\ DOMAIN d.data = {}

C2_Witness ==
    \E d \in Returned :
        /\ ~HasReference
        /\ DOMAIN input_sets # {}
        /\ "incar" \notin DOMAIN task_doc.orig_inputs
        /\ d.reasons = <<>>

\* C3: with a reference input set, KPTS is in reasons exactly when the observed
\* k-point count over the reference k-point count is strictly below
\* kpts_tolerance.
C3_KptsIffBelowTolerance ==
    \A d \in Returned :
        HasReference =>
            (KPTS \in Reasons(d)
             <=> /\ valid_num_kpts(Reference) > 0
                 /\ num_kpts(task_doc.orig_inputs) * kpts_tolerance.den
                        < kpts_tolerance.num * valid_num_kpts(Reference))

C3_Witness ==
    \E d \in Returned :
        /\ HasReference
        /\ valid_num_kpts(Reference) > 0
        /\ num_kpts(task_doc.orig_inputs) * kpts_tolerance.den
               = kpts_tolerance.num * valid_num_kpts(Reference)
        /\ KPTS \notin Reasons(d)

\* C4: with a reference input set, ENCUT is in reasons exactly when the observed
\* cutoff is strictly below the reference cutoff; an equal cutoff is not flagged.
C4_EncutIffBelowReference ==
    \A d \in Returned :
        HasReference =>
            (ENCUT \in Reasons(d)
             <=> task_doc.orig_inputs.incar.ENCUT < Reference.incar.ENCUT)

C4_Witness ==
    \E d \in Returned :
        /\ HasReference
        /\ task_doc.orig_inputs.incar.ENCUT = Reference.incar.ENCUT
        /\ ENCUT \notin Reasons(d)

\* The order of the elements changed by p, each element keeping its entries:
\* position i of the new order holds what position p[i] held.  A list with fewer
\* entries than elements can follow p only if p keeps the elements that have an
\* entry among themselves.
Permute(l, p) == [i \in DOMAIN l |-> l[p[i]]]

CanPermute(l, p) == \A i \in DOMAIN l : p[i] \in DOMAIN l

LdauLists(incar) == {k \in Range(LDAU_fields) : k \in DOMAIN incar}

PermuteIncar(incar, p) ==
    [k \in DOMAIN incar |-> IF k \in LdauLists(incar) THEN Permute(incar[k], p) ELSE incar[k]]

PermuteObserved(task, p) ==
    [task EXCEPT !.output.structure.symbol_set = Permute(@, p),
                 !.orig_inputs.incar = PermuteIncar(@, p)]

PermuteReference(sets, type, p) ==
    [sets EXCEPT ![type].poscar.structure.symbol_set = Permute(@, p),
                 ![type].incar = PermuteIncar(@, p)]

ElementOrders == Perms(1..Cardinality(Elements))

LdauFlagged(task, sets) ==
    LDAU \in Range(from_task_doc(task, kpts_tolerance, sets, max_allowed_scf_gradient,
                                 deprecated_tags).reasons)

\* C5: with a reference that requires Hubbard-U, reordering the elements of the
\* observed inputs or of the reference inputs, each element keeping its
\* LDAUU/LDAUJ/LDAUL entries, does not change whether LDAU is in reasons.
C5_LdauOrderIndependent ==
    \A d \in Returned :
        (HasReference /\ Reference.incar.LDAU) =>
            \A p \in ElementOrders :
                /\ (\A k \in LdauLists(task_doc.orig_inputs.incar) :
                        CanPermute(task_doc.orig_inputs.incar[k], p))
                   => (LdauFlagged(PermuteObserved(task_doc, p), input_sets)
                       <=> LDAU \in Reasons(d))
                /\ (LdauFlagged(task_doc, PermuteReference(input_sets, task_doc.task_type, p))
                    <=> LDAU \in Reasons(d))

C5_Witness ==
    \E d \in Returned :
        /\ HasReference /\ Reference.incar.LDAU
        /\ task_doc.output.structure.symbol_set
               # Reference.poscar.structure.symbol_set
        /\ \A k \in Range(LDAU_fields) :
               /\ k \in DOMAIN task_doc.orig_inputs.incar
               /\ Len(task_doc.orig_inputs.incar[k]) = Cardinality(Elements)
        /\ task_doc.orig_inputs.incar.LDAUU # Reference.incar.LDAUU
        /\ LDAU \notin Reasons(d)

\* the (U, J, L) the observed inputs give the element at position i of the
\* structure's symbols: none when a list is absent or too short
ObservedLdau(i) ==
    LET incar == task_doc.orig_inputs.incar
    IN  IF \A k \in Range(LDAU_fields) : k \in DOMAIN incar /\ i <= Len(incar[k])
        THEN {[k \in DOMAIN LDAU_fields |-> incar[LDAU_fields[k]][i]]}
        ELSE {}

\* the (U, J, L) the reference input set requires for element el
ReferenceLdau(el) ==
    LET order == Reference.poscar.structure.symbol_set
        j == CHOOSE j \in DOMAIN order : order[j] = el
    IN  {[k \in DOMAIN LDAU_fields |-> Reference.incar[LDAU_fields[k]][j]]}

LdauDiffers ==
    \E i \in DOMAIN task_doc.output.structure.symbol_set :
        ObservedLdau(i) # ReferenceLdau(task_doc.output.structure.symbol_set[i])

\* C6: with a reference, LDAU is in reasons exactly when the reference requires
\* Hubbard-U and some element of the structure has observed (U, J, L) that are
\* not the reference's, absent ones included.
C6_LdauIffMismatch ==
    \A d \in Returned :
        HasReference =>
            (LDAU \in Reasons(d) <=> (Reference.incar.LDAU /\ LdauDiffers))

\* C7: MANUAL is in reasons when one of the task's tags is in deprecated_tags,
\* and a task without any tag is never flagged MANUAL.
C7_ManualIffTagged ==
    \A d \in Returned :
        /\ (Range(task_doc.tags) \cap Range(dep_tags_(deprecated_tags)) # {})
            => MANUAL \in Reasons(d)
        /\ task_doc.tags = <<>> => MANUAL \notin Reasons(d)

\* the energies of the electronic steps of the last ionic step of the latest
\* calculation
LastEnergies ==
    LET ionic == task_doc.calcs_reversed[1].output.ionic_steps
        steps == ionic[Len(ionic)].electronic_steps
    IN  [i \in DOMAIN steps |-> steps[i].e_fr_energy]

\* the number of leading steps to skip: the incar's NLEMDL, none when absent
SkippedSteps == Get(task_doc.orig_inputs.incar, "NLEMDL", 0)

\* C8: with a reference, MAX_SCF is in reasons exactly when the gradient of the
\* last ionic step's electronic energies of the latest calculation exceeds
\* max_allowed_scf_gradient at some step after the skipped leading steps.
C8_MaxScfIffGradientAbove ==
    \A d \in Returned :
        HasReference =>
            (MAX_SCF \in Reasons(d)
             <=> \E i \in DOMAIN LastEnergies :
                    /\ i > SkippedSteps
                    /\ Gradient2(LastEnergies)[i] > 2 * max_allowed_scf_gradient)

C8_Witness ==
    \E d \in Returned :
        /\ HasReference
        /\ SkippedSteps > 0
        /\ \E i \in 1..SkippedSteps :
               Gradient2(LastEnergies)[i] > 2 * max_allowed_scf_gradient
        /\ MAX_SCF \notin Reasons(d)

Latest == task_doc.calcs_reversed[1]

\* what the latest calculation step alone says of each field of the entry
ReflectsLatest(e) ==
    /\ e.composition = Range(Latest.output.structure.symbol_set)
    /\ e.energy = Latest.output.energy
    /\ e.parameters.is_hubbard = Latest.input.is_hubbard
    /\ e.parameters.hubbards = Latest.input.hubbards
    /\ e.parameters.run_type =
           RunTypeOf([k \in {"LDAUL", "LDAUJ", "LDAUU"} |->
                         Get(Get(Latest.input, "incar", EmptyDict), k, <<>>)]
                     @@ Latest.input.parameters)
    /\ e.data.aspherical = Get(Latest.input.parameters, "LASPH", TRUE)

\* the task with one of its earlier steps replaced
EarlierChanged == 
    {[task_doc EXCEPT !.calcs_reversed[i] = c] :
        i \in 2..Len(task_doc.calcs_reversed), c \in CalcChoices}

MissingKpoints ==
    LET inputs == task_doc.orig_inputs
    IN  \/ "kpoints" \notin DOMAIN inputs
        \/ /\ Get(inputs.kpoints, "nkpoints", 0) = 0
           /\ "kpoints" \notin DOMAIN inputs.kpoints

MissingEncut ==
    "ENCUT" \notin DOMAIN Get(task_doc.orig_inputs, "incar", EmptyDict)

MissingEnergies ==
    LET ionic == task_doc.calcs_reversed[1].output.ionic_steps
    IN  ionic = <<>> \/ "electronic_steps" \notin DOMAIN ionic[Len(ionic)]

\* C10: with a reference of one or more k-points, a task that lacks its k-point specification, its
\* ENCUT or its electronic-step energies does not come out as a valid document,
\* and no k-point ratio is computed when the k-point specification is absent.
C10_MissingFieldReported ==
    \A d \in Returned :
        (/\ HasReference
         /\ valid_num_kpts(Reference) > 0
         /\ MissingKpoints \/ MissingEncut \/ MissingEnergies) =>
            /\ ~d.valid
            /\ MissingKpoints => "kpts_ratio" \notin DOMAIN d.data

DegenerateReference ==
    valid_num_kpts(Reference) = 0 \/ Reference.incar.ENCUT = 0

\* C11: with a reference whose k-point count or ENCUT is zero, and no field of
\* the task missing, the call returns a document that is not valid and gives a
\* reason, and no ratio stored in data is infinite or NaN.
C11_DegenerateReferenceReported ==
    \A d \in doc :
        (/\ HasReference
         /\ DegenerateReference
         /\ ~(MissingKpoints \/ MissingEncut \/ MissingEnergies)) =>
            /\ d.outcome = "returned"
            /\ ~d.valid
            /\ d.reasons # <<>>
            /\ \A k \in DOMAIN d.data : d.data[k].den # 0

ReasonOrder == <<KPTS, ENCUT, LDAU, MAX_SCF, MANUAL>>

OrderOf(code) == CHOOSE i \in DOMAIN ReasonOrder : ReasonOrder[i] = code

\* C13: the reasons of every returned document are codes among KPTS, ENCUT,
\* LDAU, MAX_SCF and MANUAL, each at most once and in that order; each check
\* flags on its own condition whatever the checks before it found; FORCES and
\* CONVERGENCE never appear.
C13_ReasonsOrderedAndIndependent ==
    \A d \in Returned :
        /\ \A i \in DOMAIN d.reasons : d.reasons[i] \in Range(ReasonOrder)
        /\ \A i, j \in DOMAIN d.reasons :
               i < j => OrderOf(d.reasons[i]) < OrderOf(d.reasons[j])
        /\ FORCES \notin Reasons(d) /\ CONVERGENCE \notin Reasons(d)
        /\ MANUAL \in Reasons(d) <=> ManualFlag(task_doc, deprecated_tags)
        /\ HasReference =>
            /\ KPTS \in Reasons(d)
                   <=> KptsFlag(kpts_ratio(task_doc.orig_inputs, Reference),
                                kpts_tolerance)
            /\ ENCUT \in Reasons(d)
                   <=> EncutFlag(encut_ratio(task_doc.orig_inputs, Reference))
            /\ LDAU \in Reasons(d)
                   <=> LdauFlag(task_doc.output.structure, task_doc.orig_inputs,
                                Reference)
            /\ MAX_SCF \in Reasons(d)
                   <=> ScfFlag(max_gradient(task_doc, task_doc.orig_inputs),
                               max_allowed_scf_gradient)

C13_Witness ==
    \E d \in Returned : d.reasons = ReasonOrder

RatEq(r, t) == r.den > 0 /\ t.den > 0 /\ r.num * t.den = t.num * r.den

\* two entries with no entry of the group between them in working-ion content
AdjacentEntries ==
    {ab \in grouped_entries \X grouped_entries :
        /\ ab[1].ion < ab[2].ion
        /\ \A c \in grouped_entries : ~(ab[1].ion < c.ion /\ c.ion < ab[2].ion)}

\* energy difference over charge transferred between entries a and b
VoltageBetween(a, b) ==
    Ratio(a.energy - b.energy + (b.ion - a.ion) * WorkingIonEntry.energy,
          b.ion - a.ion)

LeastIon == CHOOSE a \in grouped_entries : \A c \in grouped_entries : a.ion <= c.ion

MostIon == CHOOSE a \in grouped_entries : \A c \in grouped_entries : c.ion <= a.ion

\* C12: there is one voltage-pair document per adjacent pair of entries, each
\* with the average voltage of its pair; the electrode document's average
\* voltage is that of the full ordered sequence; with two entries the one pair's
\* average voltage is the electrode's.
C12_VoltagePairsAndElectrodeAverage ==
    /\ \A pairs \in voltage_pair_docs :
        /\ Len(pairs) = Cardinality(grouped_entries) - 1
        /\ Len(pairs) = Cardinality(AdjacentEntries)
        /\ \A ab \in AdjacentEntries :
            \E i \in DOMAIN pairs :
                /\ pairs[i].frac_charge = ab[1].ion
                /\ pairs[i].frac_discharge = ab[2].ion
                /\ RatEq(pairs[i].average_voltage, VoltageBetween(ab[1], ab[2]))
        /\ \A e \in electrode_doc :
            Cardinality(grouped_entries) = 2 =>
                Len(pairs) = 1 /\ RatEq(pairs[1].average_voltage, e.average_voltage)
    /\ \A e \in electrode_doc :
        RatEq(e.average_voltage, VoltageBetween(LeastIon, MostIon))

C12_Witness ==
    \E pairs \in voltage_pair_docs, e \in electrode_doc :
        /\ Len(pairs) = 2
        /\ ~RatEq(pairs[1].average_voltage, pairs[2].average_voltage)
        /\ ~RatEq(pairs[1].average_voltage, e.average_voltage)

====
